---- MODULE Spec2Model ----
(***************************************************************************)
(* Model of Downloader.py: the Tk event loop of PlaylistDownloaderGUI (one *)
(* atomic step per UI handler) and the worker threads launched by          *)
(* PlaylistDownloader.download_content.  A worker's step runs from one     *)
(* read of the state it shares with the UI and the other workers (the      *)
(* registry, the stop flag) to the next, or from one call of the fetch     *)
(* library to its next callback; the Tk writes made in between belong to   *)
(* that step.  The media-fetch library (yt_dlp) is the environment: it     *)
(* resolves metadata or raises, emits progress events and log lines in any *)
(* order, and returns or raises; an exception raised by a progress hook    *)
(* propagates out of the fetch call.  The log widget's text is not         *)
(* modelled.                                                               *)
(***************************************************************************)
EXTENDS Integers, Sequences, FiniteSets, TLC

(***************************************************************************)
(* Bounds.                                                                 *)
(***************************************************************************)
\* threads launched in one run of the application
MaxTasks == 2
\* progress events and log lines the fetch library emits in one run
MaxEvents == 2
\* entries a playlist's metadata may list
MaxItems == 2

(***************************************************************************)
(* Strings that the code searches are sequences of one-character strings.  *)
(***************************************************************************)
s_https == <<"h","t","t","p","s",":","/","/">>
s_www == <<"w","w","w",".">>
s_youtube_com == <<"y","o","u","t","u","b","e",".","c","o","m","/">>
s_YouTube_com == <<"Y","o","u","T","u","b","e",".","c","o","m","/">>
s_youtu_be == <<"y","o","u","t","u",".","b","e","/">>
s_m_youtube_com == <<"m",".","y","o","u","t","u","b","e",".","c","o","m","/">>
s_example_com == <<"e","x","a","m","p","l","e",".","c","o","m","/">>
s_watch_v == <<"w","a","t","c","h","?","v","=">>
s_youtube_com_watch_v == s_youtube_com \o s_watch_v
s_playlist == <<"p","l","a","y","l","i","s","t">>
s_PLAYLIST == <<"P","L","A","Y","L","I","S","T">>
s_list_eq == <<"l","i","s","t","=">>
s_LIST_eq == <<"L","i","s","t","=">>
s_youtube_com_playlist_list == s_youtube_com \o s_playlist \o <<"?">> \o s_list_eq
s_id == <<"a","1">>
s_q == <<"?">>
s_amp == <<"&">>
s_t_eq == <<"t","=","9">>
s_empty == << >>

\* str.lower() on one character
LowerChar(c) ==
    CASE c = "Y" -> "y" [] c = "T" -> "t" [] c = "P" -> "p" [] c = "L" -> "l"
      [] c = "A" -> "a" [] c = "I" -> "i" [] c = "S" -> "s" [] OTHER -> c

\* str.lower()
Lower(s) == [i \in 1..Len(s) |-> LowerChar(s[i])]

\* s[i:].startswith(p), i counted from 1
StartsAt(s, i, p) ==
    /\ i + Len(p) - 1 <= Len(s)
    /\ \A k \in 1..Len(p) : s[i + k - 1] = p[k]

\* p in s
Contains(s, p) == \E i \in 1..(Len(s) + 1) : StartsAt(s, i, p)

\* re.search(r'youtube\.com/.*[?&]list=', s): "." matches anything but a newline
MatchesGenericList(s) ==
    \E i \in 1..Len(s) :
        /\ StartsAt(s, i, s_youtube_com)
        /\ \E j \in (i + Len(s_youtube_com))..Len(s) :
              /\ s[j] \in {"?", "&"}
              /\ StartsAt(s, j + 1, s_list_eq)
              /\ \A k \in (i + Len(s_youtube_com))..(j - 1) : s[k] # "\n"

\* is_playlist_url that forgets url.lower()
is_playlist_url_case_sensitive(u) ==
    Contains(u, s_playlist) \/ Contains(u, s_list_eq)

is_playlist_url(u) ==
    Contains(Lower(u), s_playlist) \/ Contains(Lower(u), s_list_eq)

is_valid_youtube_url(u) ==
    \/ Contains(Lower(u), s_youtube_com_watch_v)
    \/ Contains(Lower(u), s_youtube_com_playlist_list)
    \/ Contains(Lower(u), s_youtu_be)
    \/ MatchesGenericList(Lower(u))
    \/ Contains(Lower(u), s_m_youtube_com)

\* str.strip() for the blank the URLs of this model can carry
RECURSIVE Strip(_)
Strip(s) ==
    IF s = << >> THEN s
    ELSE IF Head(s) = " " THEN Strip(Tail(s))
    ELSE IF s[Len(s)] = " " THEN Strip(SubSeq(s, 1, Len(s) - 1))
    ELSE s

(***************************************************************************)
(* Inputs.                                                                 *)
(***************************************************************************)
\* what the user types into the URL entry while downloads run
URLS ==
    { s_empty,
      s_example_com \o s_id,
      s_youtu_be \o s_id,
      s_youtube_com_playlist_list \o s_id }

\* every combination of the recognised markers, for the URL classifier
AllUrls ==
    { pre \o host \o path \o suf :
        pre \in {s_empty, s_https, s_https \o s_www},
        host \in {s_youtube_com, s_YouTube_com, s_youtu_be, s_m_youtube_com,
                  s_example_com},
        path \in {s_empty, s_watch_v \o s_id,
                  s_playlist \o s_q \o s_list_eq \o s_id,
                  s_PLAYLIST \o s_q \o s_LIST_eq \o s_id, s_id},
        suf \in {s_empty, s_amp \o s_list_eq \o s_id, s_q \o s_list_eq \o s_id,
                 s_amp \o s_t_eq} }
      \cup {s_empty, <<" ">>}

\* what the handlers compute from url_var.get()
Classify(u) ==
    [empty |-> Strip(u) = s_empty,
     valid |-> is_valid_youtube_url(Strip(u)),
     playlist |-> is_playlist_url(Strip(u))]

\* Classify, tabulated once for the URLs typed while downloads run
RECURSIVE Tabulate(_)
Tabulate(S) ==
    IF S = {} THEN << >>
    ELSE LET u == CHOOSE v \in S : TRUE
         IN  Append(Tabulate(S \ {u}), [key |-> u, info |-> Classify(u)])

UrlTable == Tabulate(URLS)

UrlInfo(u) ==
    IF u \in URLS
    THEN UrlTable[CHOOSE i \in 1..Len(UrlTable) : UrlTable[i].key = u].info
    ELSE Classify(u)

\* Log lines are sequences of tokens; the first token is what startswith sees.
t_merger == "[Merger] Merging formats into"
t_download == "[download]"
LogLines ==
    { <<t_merger, " \"a1.mp4\"">>,
      <<"  ", t_merger, " \"a1.mp4\"">>,
      <<t_download, " Destination: a1.webm">>,
      <<"Deleting original file a1.webm">>,
      <<" ">> }
\* the logger calls the fetch library makes: <<method, msg>>
LogCalls ==
    ({"debug"} \X LogLines) \cup ({"warning", "error"} \X {<<t_merger, " \"a1.mp4\"">>})

\* progress dictionaries d handed to a progress hook; total_bytes 0 is "unknown"
ProgressEvents ==
    { [status |-> "downloading", downloaded_bytes |-> 1, total_bytes |-> 2],
      [status |-> "downloading", downloaded_bytes |-> 1, total_bytes |-> 0],
      [status |-> "finished", downloaded_bytes |-> 2, total_bytes |-> 2],
      [status |-> "error", downloaded_bytes |-> 0, total_bytes |-> 0] }

\* str(e) of what the library raises
e_metadata == "Unable to extract metadata"
e_fetch == "Download failed"
e_stopped == "Download stopped by user."

(***************************************************************************)
(* State.                                                                  *)
(***************************************************************************)
VARIABLES
    url,                 \* url_var
    button,              \* download_btn state: "normal" or "disabled"
    progress_var,        \* percent indicator
    status_var,          \* status bar text
    progress_label_var,  \* "Progress: c/t" label
    stop_flag,           \* stop_flag['stop']
    active_downloads,    \* list of registered threads
    task,                \* task[t]: thread t's position and locals
    nthreads,            \* threads launched so far
    evs,                 \* callbacks the fetch library has made so far
    flagged              \* threads still in the fetch call they were in when
                         \* a stop handler set the flag (history)

vars ==
    <<url, button, progress_var, status_var, progress_label_var, stop_flag,
      active_downloads, task, nthreads, evs, flagged>>

Tasks == 1..MaxTasks

\* f"Progress: {current}/{total}"
FmtLabel(c, n) == "Progress: " \o ToString(c) \o "/" \o ToString(n)

IdleTask ==
    [pc |-> "idle", audio_only |-> FALSE, playlist |-> FALSE, total_videos |-> 0,
     current |-> 0]

InRegistry(t) == \E i \in 1..Len(active_downloads) : active_downloads[i] = t

\* list.remove(x): drops the first occurrence
RemoveFirst(l, x) ==
    LET i == CHOOSE k \in 1..Len(l) : l[k] = x /\ \A j \in 1..(k - 1) : l[j] # x
    IN  SubSeq(l, 1, i - 1) \o SubSeq(l, i + 1, Len(l))

\* the thread is inside ydl2.download(...)
Transferring(t) == task[t].pc = "transfer"

Init ==
    /\ url = s_empty
    /\ button = "disabled"
    /\ progress_var = 0
    /\ status_var = "Ready."
    /\ progress_label_var = "Progress: 0/0"
    /\ stop_flag = FALSE
    /\ active_downloads = << >>
    /\ task = [t \in Tasks |-> IdleTask]
    /\ nthreads = 0
    /\ evs = 0
    /\ flagged = {}

(***************************************************************************)
(* UI handlers: each runs to completion on the Tk event loop.              *)
(***************************************************************************)
\* validate_url(), the write trace of url_var
validate_url ==
    LET u == UrlInfo(url') IN
    IF ~u.empty /\ u.valid
    THEN /\ button' = "normal"
         /\ status_var' = IF u.playlist
                          THEN "Ready to download playlist."
                          ELSE "Ready to download video."
    ELSE /\ button' = "disabled"
         /\ status_var' = IF ~u.empty
                          THEN "Enter a valid YouTube URL."
                          ELSE "Enter a YouTube playlist or video URL."

\* the user writes the URL entry (retyping the same text also fires the trace)
TypeUrl(S) ==
    /\ \E u \in S : url' = u
    /\ validate_url
    /\ UNCHANGED <<progress_var, progress_label_var, stop_flag, active_downloads,
                   task, nthreads, evs, flagged>>

\* download_content that registers the thread before it returns
download_content_registers(audio_only, playlist) ==
    /\ nthreads < MaxTasks
    /\ nthreads' = nthreads + 1
    /\ task' = [task EXCEPT ![nthreads + 1] =
                  [pc |-> "resolve", audio_only |-> audio_only, playlist |-> playlist,
                   total_videos |-> 0, current |-> 0]]

\* download_content(): threading.Thread(target=run).start(); run() has not begun
download_content(audio_only, playlist) ==
    /\ nthreads < MaxTasks
    /\ nthreads' = nthreads + 1
    /\ task' = [task EXCEPT ![nthreads + 1] =
                  [IdleTask EXCEPT !.pc = "reg", !.audio_only = audio_only,
                                   !.playlist = playlist]]

\* start_download without its check of the URL
start_download_unchecked ==
    /\ button = "normal"
    /\ button' = "disabled"
    /\ progress_var' = 0
    /\ status_var' = "Downloading "
                        \o (IF UrlInfo(url).playlist THEN "playlist" ELSE "video")
                        \o "..."
    /\ stop_flag' = FALSE
    /\ \E audio_only \in BOOLEAN : download_content(audio_only, UrlInfo(url).playlist)
    /\ UNCHANGED <<url, progress_label_var, active_downloads, evs, flagged>>

\* start_download(), the command of the (enabled) download button
start_download ==
    /\ button = "normal"
    /\ LET u == UrlInfo(url) IN
       IF u.empty \/ ~u.valid
       THEN \* messagebox.showerror(...); return
            UNCHANGED vars
       ELSE /\ button' = "disabled"
            /\ progress_var' = 0
            /\ status_var' = "Downloading "
                                \o (IF u.playlist THEN "playlist" ELSE "video")
                                \o "..."
            /\ stop_flag' = FALSE
            /\ \E audio_only \in BOOLEAN : download_content(audio_only, u.playlist)
            /\ UNCHANGED <<url, progress_label_var, active_downloads, evs, flagged>>

\* stop_download(), the "Stop Current" button
stop_download ==
    /\ stop_flag' = TRUE
    /\ status_var' = "Stopping current download..."
    /\ flagged' = flagged \cup {t \in Tasks : Transferring(t)}
    /\ UNCHANGED <<url, button, progress_var, progress_label_var, active_downloads,
                   task, nthreads, evs>>

\* stop_all_downloads that resets the display whatever the registry holds
stop_all_unconditional ==
    /\ stop_flag' = TRUE
    /\ flagged' = flagged \cup {t \in Tasks : Transferring(t)}
    /\ active_downloads' = << >>
    /\ button' = "normal"
    /\ progress_var' = 0
    /\ progress_label_var' = "Progress: 0/0"
    /\ status_var' = "All downloads stopped."
    /\ UNCHANGED <<url, task, nthreads, evs>>

\* stop_all_downloads(), the "Stop All" button
stop_all_downloads ==
    /\ stop_flag' = TRUE
    /\ flagged' = flagged \cup {t \in Tasks : Transferring(t)}
    /\ IF active_downloads # << >>
       THEN /\ active_downloads' = << >>
            /\ button' = "normal"
            /\ progress_var' = 0
            /\ progress_label_var' = "Progress: 0/0"
            /\ status_var' = "All downloads stopped."
       ELSE /\ status_var' = "No active downloads to stop."
            /\ UNCHANGED <<active_downloads, button, progress_var, progress_label_var>>
    /\ UNCHANGED <<url, task, nthreads, evs>>

\* clear_log(), the "Clear Log" button
clear_log ==
    /\ progress_var' = 0
    /\ UNCHANGED <<url, button, status_var, progress_label_var, stop_flag,
                   active_downloads, task, nthreads, evs, flagged>>

(***************************************************************************)
(* YTDlpLogger, the log sink of thread t's fetch call.                     *)
(***************************************************************************)
\* msg.startswith(tok)
StartsWith(msg, tok) == Len(msg) > 0 /\ msg[1] = tok

\* not msg.strip()
IsBlank(msg) == \A i \in 1..Len(msg) : msg[i] \in {" ", "  "}

\* _write_to_output that counts merges whatever the mode
_write_to_output_any_mode(t, msg) ==
    IF StartsWith(msg, t_merger)
    THEN /\ task' = [task EXCEPT ![t].current = @ + 1]
         /\ progress_label_var' = "Progress: " \o ToString(task[t].current + 1)
                                     \o "/" \o ToString(task[t].total_videos)
    ELSE UNCHANGED <<task, progress_label_var>>

\* YTDlpLogger._write_to_output(msg, tag)
_write_to_output(t, msg) ==
    IF ~task[t].audio_only /\ StartsWith(msg, t_merger)
    THEN /\ task' = [task EXCEPT ![t].current = @ + 1]
         /\ progress_label_var' = FmtLabel(task[t].current + 1, task[t].total_videos)
    ELSE UNCHANGED <<task, progress_label_var>>

\* YTDlpLogger.debug / warning / error
LoggerCall(t, level, msg) ==
    IF IsBlank(msg) THEN UNCHANGED <<task, progress_label_var>>
    ELSE IF level = "debug" THEN _write_to_output(t, msg)
    ELSE IF level = "warning" THEN _write_to_output(t, <<"[warning] ">> \o msg)
    ELSE _write_to_output(t, <<"[error] ">> \o msg)

(***************************************************************************)
(* Worker thread t: run() of download_content and the process it calls.    *)
(***************************************************************************)
Goto(t, pc) == task' = [task EXCEPT ![t].pc = pc]

\* run() goes on to its finally block, which reads none of the thread's locals
Leave(t) == task' = [task EXCEPT ![t] = [IdleTask EXCEPT !.pc = "fin_check"]]

\* run(): except Exception as e: status_var.set(f"Error: {str(e)}")
Except(e) == status_var' = "Error: " \o e

\* run(): active_downloads.append(current_thread)
Register(t) ==
    /\ task[t].pc = "reg"
    /\ active_downloads' = Append(active_downloads, t)
    /\ Goto(t, "resolve")
    /\ UNCHANGED <<url, button, progress_var, status_var, progress_label_var,
                   stop_flag, nthreads, evs, flagged>>

\* _download_playlist_process / _download_video_process up to the fetch call:
\* makedirs and extract_info return and the label is set to 0/total
ResolveMetadata(t) ==
    /\ task[t].pc = "resolve"
    /\ \E n \in (IF task[t].playlist THEN 0..MaxItems ELSE {1}) :
         /\ task' = [task EXCEPT ![t].pc = "transfer", ![t].total_videos = n,
                                 ![t].current = 0]
         /\ progress_label_var' = FmtLabel(0, n)
    /\ UNCHANGED <<url, button, progress_var, status_var, stop_flag,
                   active_downloads, nthreads, evs, flagged>>

\* a metadata failure that is swallowed: the process goes on to the fetch
ResolveRaises_goes_on(t) ==
    /\ task[t].pc = "resolve"
    /\ task' = [task EXCEPT ![t].pc = "transfer"]
    /\ progress_label_var' = "Progress: 0/0"
    /\ UNCHANGED <<url, button, progress_var, status_var, stop_flag,
                   active_downloads, nthreads, evs, flagged>>

\* makedirs or extract_info raises
ResolveRaises(t) ==
    /\ task[t].pc = "resolve"
    /\ Except(e_metadata)
    /\ Leave(t)
    /\ UNCHANGED <<url, button, progress_var, progress_label_var, stop_flag,
                   active_downloads, nthreads, evs, flagged>>

\* _handle_download_progress(d, ...)
_handle_download_progress(t, d) ==
    /\ progress_var' = IF d.total_bytes # 0
                       THEN (d.downloaded_bytes * 100) \div d.total_bytes
                       ELSE progress_var
    /\ UNCHANGED <<task, progress_label_var>>

\* _handle_download_finished that counts finished transfers whatever the mode
_handle_download_finished_any_mode(t) ==
    /\ progress_var' = 100
    /\ task' = [task EXCEPT ![t].current = @ + 1]
    /\ progress_label_var' = FmtLabel(task[t].current + 1, task[t].total_videos)

\* _handle_download_finished(d, ...)
_handle_download_finished(t) ==
    /\ progress_var' = 100
    /\ IF task[t].audio_only
       THEN /\ task' = [task EXCEPT ![t].current = @ + 1]
            /\ progress_label_var' = FmtLabel(task[t].current + 1, task[t].total_videos)
       ELSE UNCHANGED <<task, progress_label_var>>

\* progress_hook that never reads the stop flag
progress_hook_unchecked(t, d) ==
    /\ task[t].pc = "transfer"
    /\ evs < MaxEvents
    /\ evs' = evs + 1
    /\ IF d.status = "downloading" THEN _handle_download_progress(t, d)
       ELSE IF d.status = "finished" THEN _handle_download_finished(t)
       ELSE UNCHANGED <<task, progress_var, progress_label_var>>
    /\ UNCHANGED <<url, button, stop_flag, active_downloads, nthreads, status_var,
                   flagged>>

\* progress_hook(d) of the thread's fetch call
progress_hook(t, d) ==
    /\ task[t].pc = "transfer"
    /\ evs < MaxEvents
    /\ evs' = evs + 1
    /\ IF stop_flag
       THEN \* raise Exception("Download stopped by user.")
            /\ Except(e_stopped)
            /\ Leave(t)
            /\ flagged' = flagged \ {t}
            /\ UNCHANGED <<progress_var, progress_label_var>>
       ELSE /\ IF d.status = "downloading" THEN _handle_download_progress(t, d)
               ELSE IF d.status = "finished" THEN _handle_download_finished(t)
               ELSE UNCHANGED <<task, progress_var, progress_label_var>>
            /\ UNCHANGED <<status_var, flagged>>
    /\ UNCHANGED <<url, button, stop_flag, active_downloads, nthreads>>

\* the fetch call logs a line
LogLine(t, level, msg) ==
    /\ task[t].pc = "transfer"
    /\ evs < MaxEvents
    /\ evs' = evs + 1
    /\ LoggerCall(t, level, msg)
    /\ UNCHANGED <<url, button, progress_var, status_var, stop_flag,
                   active_downloads, nthreads, flagged>>

\* ydl2.download(...) returns: the completed status and the final label
FetchReturns(t) ==
    /\ task[t].pc = "transfer"
    /\ status_var' = IF task[t].playlist THEN "Playlist download completed!"
                     ELSE "Video download completed!"
    /\ progress_label_var' = FmtLabel(task[t].current, task[t].total_videos)
    /\ Leave(t)
    /\ flagged' = flagged \ {t}
    /\ UNCHANGED <<url, button, progress_var, stop_flag, active_downloads,
                   nthreads, evs>>

\* ydl2.download(...) raises
FetchRaises(t) ==
    /\ task[t].pc = "transfer"
    /\ Except(e_fetch)
    /\ Leave(t)
    /\ flagged' = flagged \ {t}
    /\ UNCHANGED <<url, button, progress_var, progress_label_var, stop_flag,
                   active_downloads, nthreads, evs>>

\* run(): finally: if current_thread in active_downloads
FinallyCheck(t) ==
    /\ task[t].pc = "fin_check"
    /\ Goto(t, IF InRegistry(t) THEN "fin_remove" ELSE "fin_reset")
    /\ UNCHANGED <<url, button, progress_var, status_var, progress_label_var,
                   stop_flag, active_downloads, nthreads, evs, flagged>>

\* run(): finally: active_downloads.remove(current_thread); ValueError, which
\* nothing catches, ends the thread when the entry has gone since the check
FinallyRemove(t) ==
    /\ task[t].pc = "fin_remove"
    /\ IF InRegistry(t)
       THEN /\ active_downloads' = RemoveFirst(active_downloads, t)
            /\ Goto(t, "fin_reset")
       ELSE /\ Goto(t, "crashed")
            /\ UNCHANGED active_downloads
    /\ UNCHANGED <<url, button, progress_var, status_var, progress_label_var,
                   stop_flag, nthreads, evs, flagged>>

\* a cleanup that leaves the display alone when a newer thread was launched
FinallyReset_generation(t) ==
    /\ task[t].pc = "fin_reset"
    /\ IF nthreads > t
       THEN UNCHANGED <<button, progress_var>>
       ELSE button' = "normal" /\ progress_var' = 0
    /\ Goto(t, "done")
    /\ UNCHANGED <<url, status_var, progress_label_var, stop_flag,
                   active_downloads, nthreads, evs, flagged>>

\* run(): finally: button.config(state=NORMAL); progress_var.set(0)
FinallyReset(t) ==
    /\ task[t].pc = "fin_reset"
    /\ button' = "normal"
    /\ progress_var' = 0
    /\ Goto(t, "done")
    /\ UNCHANGED <<url, status_var, progress_label_var, stop_flag,
                   active_downloads, nthreads, evs, flagged>>

Worker(t) ==
    \/ Register(t)
    \/ ResolveMetadata(t)
    \/ ResolveRaises(t)
    \/ \E d \in ProgressEvents : progress_hook(t, d)
    \/ \E c \in LogCalls : LogLine(t, c[1], c[2])
    \/ FetchReturns(t)
    \/ FetchRaises(t)
    \/ FinallyCheck(t)
    \/ FinallyRemove(t)
    \/ FinallyReset(t)

Next ==
    \/ TypeUrl(URLS)
    \/ start_download
    \/ stop_download
    \/ stop_all_downloads
    \/ clear_log
    \/ \E t \in Tasks : Worker(t)

Spec == Init /\ [][Next]_vars

\* The URL entry alone: the user types any URL and validate_url classifies it.
NextUrl == TypeUrl(AllUrls)

SpecUrl == Init /\ [][NextUrl]_vars

(***************************************************************************)
(* Properties.                                                             *)
(***************************************************************************)
\* the URL in the entry is one start_download rejects
Rejected == UrlInfo(url).empty \/ ~UrlInfo(url).valid

\* thread t has been launched and has not ended
InFlight(t) == task[t].pc \in {"reg", "resolve", "transfer", "fin_check",
                               "fin_remove", "fin_reset"}

\* C1: a start whose URL is empty or not valid changes neither the registry,
\* the threads, the stop flag, the start button, the percent indicator nor
\* the status text, and a thread is only ever launched while the URL in the
\* entry is non-empty and valid.
C1_RejectedStartChangesNothing ==
    [][ /\ (start_download /\ Rejected) =>
              UNCHANGED <<active_downloads, task, nthreads, stop_flag, button,
                          progress_var, status_var>>
        /\ (nthreads' # nthreads) => ~Rejected ]_vars

\* C1 witness: the start button is enabled over a rejected URL while a
\* download is in flight.
C1_Witness ==
    /\ button = "normal"
    /\ Rejected
    /\ \E t \in Tasks : InFlight(t)

\* C2, as stated: every stop_all sets the flag and leaves the registry empty
\* and the label at 0/0.
C2_StopAllAlwaysResets ==
    [][ stop_all_downloads =>
          /\ stop_flag'
          /\ active_downloads' = << >>
          /\ progress_label_var' = "Progress: 0/0" ]_vars

\* C2, amended: every stop_all sets the flag and leaves the registry empty;
\* it resets the label to 0/0 when the registry held a thread and leaves the
\* label as it was when the registry was empty.
C2_StopAllResetsWhenRegistered ==
    [][ stop_all_downloads =>
          /\ stop_flag'
          /\ active_downloads' = << >>
          /\ active_downloads # << >> => progress_label_var' = "Progress: 0/0"
          /\ active_downloads = << >> =>
                /\ progress_label_var' = progress_label_var
                /\ status_var' = "No active downloads to stop." ]_vars

\* C2 witness: stop_all has found the registry empty and the label of an
\* earlier download is still shown.
C2_Witness ==
    /\ status_var = "No active downloads to stop."
    /\ stop_flag
    /\ active_downloads = << >>
    /\ progress_label_var # "Progress: 0/0"

\* C3, the counter half as a property of every step: a thread that is still
\* in the fetch call it was in when a stop handler set the flag does not
\* advance its completed-item counter.
C3_CounterHaltsAfterStop ==
    [][ \A t \in flagged \cap flagged' :
          task'[t].current <= task[t].current ]_vars

\* C4, as a property of the step that ends a thread: the thread is not in
\* the registry, the start button is enabled and the percent indicator is 0.
C4_ThreadEndsCleanedUp ==
    [][ \A t \in Tasks :
          (InFlight(t) /\ task'[t].pc \in {"done", "crashed"}) =>
              /\ task'[t].pc = "done"
              /\ ~\E i \in 1..Len(active_downloads') : active_downloads'[i] = t
              /\ button' = "normal"
              /\ progress_var' = 0 ]_vars

\* C5: the start button is disabled in every state in which a launched
\* thread has not ended.
C5_DisabledWhileInFlight ==
    (\E t \in Tasks : InFlight(t)) => button = "disabled"

Solo == nthreads = 1 /\ task[1].pc = "transfer" /\ ~stop_flag

\* the fetch library logs a merge-completion line at debug level
MergeLine(t) ==
    \E c \in LogCalls :
        /\ c[1] = "debug"
        /\ c[2][1] = "[Merger] Merging formats into"
        /\ LogLine(t, c[1], c[2])

\* the fetch library reports a progress event with the given status
ProgressEvent(t, status) ==
    \E d \in ProgressEvents : d.status = status /\ progress_hook(t, d)

\* C7: for a lone single-video download in VIDEO mode with no stop, the
\* label is 0/1 once metadata resolves; a step changes the label only if it
\* is a merge-completion log line, which adds one to the counter, or the
\* return of the fetch; no progress event changes the label; and the return
\* of the fetch sets the status "Video download completed!" and the label
\* "<counter>/1".
C7_VideoLabelFollowsMerge ==
    [][ /\ (nthreads = 1 /\ ResolveMetadata(1) /\ ~task[1].playlist) =>
              progress_label_var' = "Progress: 0/1"
        /\ (Solo /\ ~stop_flag' /\ ~task[1].audio_only /\ ~task[1].playlist) =>
              /\ task[1].total_videos = 1
              /\ (progress_label_var' # progress_label_var) =>
                    \/ /\ MergeLine(1)
                       /\ task'[1].current = task[1].current + 1
                       /\ progress_label_var = "Progress: 0/1" =>
                              progress_label_var' = "Progress: 1/1"
                    \/ FetchReturns(1)
              /\ (\E d \in ProgressEvents : progress_hook(1, d)) =>
                    /\ progress_label_var' = progress_label_var
                    /\ task'[1].current = task[1].current
              /\ FetchReturns(1) =>
                    /\ status_var' = "Video download completed!"
                    /\ progress_label_var' =
                          "Progress: " \o ToString(task[1].current) \o "/1" ]_vars

\* C7 witness: the lone VIDEO download has seen a finished progress event
\* and a merge-completion line, and shows 1/1.
C7_Witness ==
    /\ Solo
    /\ ~task[1].audio_only /\ ~task[1].playlist
    /\ progress_var = 100
    /\ task[1].current = 1
    /\ progress_label_var = "Progress: 1/1"

\* C8: for a lone collection download of N items in AUDIO mode with no
\* stop, the label is 0/N once metadata resolves; every "finished" progress
\* event adds exactly one to the counter and shows it in the label; and no
\* other step inside the fetch changes the counter or the label.
C8_AudioCountsFinished ==
    [][ /\ (nthreads = 1 /\ ResolveMetadata(1)) =>
              progress_label_var' =
                  "Progress: 0/" \o ToString(task'[1].total_videos)
        /\ (Solo /\ ~stop_flag' /\ task[1].audio_only /\ task[1].playlist) =>
              /\ ProgressEvent(1, "finished") =>
                    /\ task'[1].current = task[1].current + 1
                    /\ progress_label_var' =
                          "Progress: " \o ToString(task[1].current + 1) \o "/"
                             \o ToString(task[1].total_videos)
              /\ (task'[1].pc = "transfer"
                    /\ (task'[1].current # task[1].current
                          \/ progress_label_var' # progress_label_var)) =>
                    ProgressEvent(1, "finished")
              /\ progress_label_var =
                    "Progress: " \o ToString(task[1].current) \o "/"
                       \o ToString(task[1].total_videos) ]_vars

\* C8 witness: the lone AUDIO collection download of MaxItems items has seen
\* MaxItems finished events and shows MaxItems/MaxItems.
C8_Witness ==
    /\ Solo
    /\ task[1].audio_only /\ task[1].playlist
    /\ task[1].total_videos = MaxItems
    /\ task[1].current = MaxItems
    /\ progress_label_var =
          "Progress: " \o ToString(MaxItems) \o "/" \o ToString(MaxItems)

\* the URL carries the marker m, letter case ignored
HasMarker(u, m) ==
    \E i \in 1..Len(u) :
        /\ i + Len(m) - 1 <= Len(u)
        /\ \A k \in 1..Len(m) : LowerChar(u[i + k - 1]) = m[k]

\* a known single-video pattern: the watch page or the short link
SingleVideoPattern(u) ==
    \/ HasMarker(u, <<"y","o","u","t","u","b","e",".","c","o","m","/",
                      "w","a","t","c","h","?","v","=">>)
    \/ HasMarker(u, <<"y","o","u","t","u",".","b","e","/">>)

\* a collection marker: "playlist" or "list="
CollectionMarker(u) ==
    \/ HasMarker(u, <<"p","l","a","y","l","i","s","t">>)
    \/ HasMarker(u, <<"l","i","s","t","=">>)

\* C9, as stated: every URL matching a single-video pattern yields false and
\* every URL containing a collection marker yields true.
C9_SingleVideoNeverCollection ==
    /\ SingleVideoPattern(url) => ~is_playlist_url(url)
    /\ CollectionMarker(url) => is_playlist_url(url)

\* C9, amended: is_playlist_url is true exactly for the URLs that contain a
\* collection marker, so a URL matching a single-video pattern yields false
\* only when it carries no collection marker.
C9_CollectionIffMarker ==
    /\ is_playlist_url(url) <=> CollectionMarker(url)
    /\ (SingleVideoPattern(url) /\ ~CollectionMarker(url)) => ~is_playlist_url(url)

\* C9 witness: a watch-page URL that also names a list is in the entry, and
\* is classified as a collection.
C9_Witness ==
    /\ SingleVideoPattern(url)
    /\ CollectionMarker(url)
    /\ UrlInfo(url).valid
    /\ status_var = "Ready to download playlist."

C11_CounterWithinTotal ==
    \A t \in Tasks :
        Transferring(t) =>
            /\ 0 <= task[t].current
            /\ task[t].current <= task[t].total_videos

\* thread t is past its process: in the cleanup block of run() or ended
PastProcess(t) ==
    task[t].pc \in {"fin_check", "fin_remove", "fin_reset", "done", "crashed"}

C13_StaleCompletionOverwrites ==
    [][ \A t \in Tasks :
          /\ FetchRaises(t) => status_var' = "Error: Download failed"
          /\ FinallyReset(t) =>
                /\ button' = "normal"
                /\ progress_var' = 0
                /\ task'[t].pc = "done" ]_vars

\* C13 witness: the first thread is no longer in the registry although it
\* has not yet run its removal (stop_all emptied the registry), the flag is
\* false again and a second download is registered and in its fetch call (a
\* start came after the stop_all), and the status shows the failure of the
\* first thread (its fetch failed after that start); the first thread is
\* about to run its cleanup over the start button that the second start
\* disabled and over the percent on display.
C13_Witness ==
    /\ nthreads = 2
    /\ task[1].pc = "fin_check"
    /\ ~InRegistry(1)
    /\ task[2].pc = "transfer"
    /\ active_downloads = <<2>>
    /\ ~stop_flag
    /\ status_var = "Error: Download failed"
    /\ button = "disabled"
    /\ progress_var = 50

\* C14, as an invariant: the registry holds no thread twice, every thread in
\* it has begun running and has not ended, and no thread has died of the
\* removal of its own entry.
C14_RegistrySound ==
    /\ \A i, j \in 1..Len(active_downloads) :
          active_downloads[i] = active_downloads[j] => i = j
    /\ \A i \in 1..Len(active_downloads) :
          task[active_downloads[i]].pc \in {"resolve", "transfer", "fin_check",
                                            "fin_remove"}
    /\ \A t \in Tasks : task[t].pc # "crashed"

====
